---- MODULE Spec2Model ----
(***************************************************************************)
(* A state-machine model of bin/polly.py, the build orchestrator: argument *)
(* parsing, toolchain resolution, environment tuning, validation, layout,  *)
(* --clear, command composition and the sequential stage pipeline.         *)
(*                                                                         *)
(* Python values are modelled as follows.  An optional value (None or a    *)
(* value) is a sequence of length 0 or 1.  Strings are TLA+ strings and    *)
(* str.format is string concatenation.  Lists are sequences.               *)
(***************************************************************************)
EXTENDS Integers, Sequences, FiniteSets, TLC

(***************************************************************************)
(* Python helpers                                                          *)
(***************************************************************************)
None == <<>>

Some(v) == <<v>>

Get(o) == o[1]

\* Truth value of an optional string: None and '' are false.
TruthyStr(o) == o # None /\ Get(o) # ""

\* Truth value of an optional int: None and 0 are false.
TruthyInt(o) == o # None /\ Get(o) # 0

\* '{}'.format(n) for an int.
FormatInt(n) == ToString(n)

\* int(s) for the decimal strings the toolchain table holds.
ParseInt(s) == CHOOSE n \in 0..99 : ToString(n) = s

\* The paths, written without a trailing separator, that the runs checked
\* can name: the root (''), the directories of the machine, polly_root and
\* the values given to --output, MINGW_PATH and MSYS_PATH.
PathStems ==
  {"", "/cwd", "/out", "/ro", "/missing", "/polly", "/mingw/bin", "/msys/bin", "/nowhere"}

\* p.endswith('/'), decided for every path that is a stem or a stem followed
\* by one separator ('/' itself is the empty stem followed by the separator).
EndsWithSep(p) == \E q \in PathStems : p = q \o "/"

\* os.path.isdir / os.access of a path whose directory is in S: a trailing
\* separator names the same directory.
NamesOneOf(p, S) == p \in S \/ \E q \in S : p = q \o "/"

\* os.path.join(a, b) for a relative component b.
os_path_join(a, b) == IF a = "" \/ EndsWithSep(a) THEN a \o b ELSE a \o "/" \o b

RECURSIVE FlattenTargets(_)
\* ['--target', t] for every target, in order.
FlattenTargets(ts) ==
  IF ts = <<>> THEN <<>> ELSE <<"--target", Head(ts)>> \o FlattenTargets(Tail(ts))

\* Whether x occurs in the sequence s.
InSeq(x, s) == \E i \in 1..Len(s) : s[i] = x

RECURSIVE PrefixEach(_, _)
\* [prefix + x for x in xs]
PrefixEach(prefix, xs) ==
  IF xs = <<>> THEN <<>> ELSE <<prefix \o Head(xs)>> \o PrefixEach(prefix, Tail(xs))

(***************************************************************************)
(* The toolchain table (detail/toolchain_table.py)                         *)
(***************************************************************************)
Toolchain(name, generator, multiconfig, is_make, is_nmake, is_ninja, is_xcode, is_msvc, vs_version, arch, ios_version, osx_version, xp, nocodesign) ==
  [name |-> name, generator |-> generator, multiconfig |-> multiconfig,
   is_make |-> is_make, is_nmake |-> is_nmake, is_ninja |-> is_ninja,
   is_xcode |-> is_xcode, is_msvc |-> is_msvc, vs_version |-> vs_version,
   arch |-> arch, ios_version |-> ios_version, osx_version |-> osx_version,
   xp |-> xp, nocodesign |-> nocodesign]

toolchain_table ==
  << Toolchain("default", "", FALSE, FALSE, FALSE, FALSE, FALSE, FALSE, "", "", "", "", FALSE, FALSE),
     Toolchain("ninja", "Ninja", FALSE, FALSE, FALSE, TRUE, FALSE, FALSE, "", "", "", "", FALSE, FALSE),
     Toolchain("xcode", "Xcode", TRUE, FALSE, FALSE, FALSE, TRUE, FALSE, "", "", "", "", FALSE, FALSE),
     Toolchain("mingw", "MinGW Makefiles", FALSE, TRUE, FALSE, FALSE, FALSE, FALSE, "", "", "", "", FALSE, FALSE),
     Toolchain("mingw-c11", "MinGW Makefiles", FALSE, TRUE, FALSE, FALSE, FALSE, FALSE, "", "", "", "", FALSE, FALSE),
     Toolchain("msys", "MSYS Makefiles", FALSE, TRUE, FALSE, FALSE, FALSE, FALSE, "", "", "", "", FALSE, FALSE),
     Toolchain("nmake-vs-12-2013", "NMake Makefiles", FALSE, TRUE, TRUE, FALSE, FALSE, FALSE, "12", "x86", "", "", FALSE, FALSE),
     Toolchain("ninja-vs-12-2013-win64", "Ninja", FALSE, FALSE, FALSE, TRUE, FALSE, FALSE, "12", "amd64", "", "", FALSE, FALSE),
     Toolchain("vs-12-2013", "Visual Studio 12 2013", TRUE, FALSE, FALSE, FALSE, FALSE, TRUE, "12", "", "", "", FALSE, FALSE),
     Toolchain("vs-10-2010", "Visual Studio 10 2010", TRUE, FALSE, FALSE, FALSE, FALSE, TRUE, "10", "", "", "", FALSE, FALSE),
     Toolchain("vs-12-2013-xp", "Visual Studio 12 2013", TRUE, FALSE, FALSE, FALSE, FALSE, TRUE, "12", "", "", "", TRUE, FALSE),
     Toolchain("ios-nocodesign", "Xcode", TRUE, FALSE, FALSE, FALSE, TRUE, FALSE, "", "", "8.1", "", FALSE, TRUE),
     Toolchain("osx-10-11", "Xcode", TRUE, FALSE, FALSE, FALSE, TRUE, FALSE, "", "", "", "10.11", FALSE, FALSE) >>

\* [x.name for x in toolchain_table]
toolchain_names == { toolchain_table[i].name : i \in 1..Len(toolchain_table) }

\* detail.toolchain_table.get_by_name
get_by_name(name) ==
  toolchain_table[CHOOSE i \in 1..Len(toolchain_table) : toolchain_table[i].name = name]

\* detail.toolchain_name.get: the requested name, or the default toolchain.
toolchain_name_get(requested) == IF requested = None THEN "default" ELSE Get(requested)

\* The value of toolchain_entry before line 197 has run.
NoEntry == Toolchain("", "", FALSE, FALSE, FALSE, FALSE, FALSE, FALSE, "", "", "", "", FALSE, FALSE)

(***************************************************************************)
(* Pure parts of the script                                                *)
(***************************************************************************)
\* A slip: the configuration is put in the tag of multiconfig toolchains too.
BuildTag_AnyToolchain(name, multiconfig, config) ==
  IF TruthyStr(config) THEN name \o "-" \o Get(config) ELSE name

\* Lines 203-207: the build directory tag.
BuildTag(name, multiconfig, config) ==
  IF TruthyStr(config) /\ ~multiconfig THEN name \o "-" \o Get(config) ELSE name

\* Line 257: build_dir.
BuildDir(dir, tag) == os_path_join(os_path_join(dir, "_builds"), tag)

\* Line 261: install_dir.
InstallDir(dir, name) == os_path_join(os_path_join(dir, "_install"), name)

\* Line 288: framework_dir.
FrameworkDir(dir, name) == os_path_join(os_path_join(dir, "_framework"), name)

\* Line 289: archives_dir.
ArchivesDir(dir) == os_path_join(dir, "_archives")

\* Line 262: the truth value of local_install.
LocalInstall(a) ==
  a.install \/ a.strip \/ a.framework \/ a.framework_device \/ TruthyStr(a.archive)

\* Lines 267-272: install_target_name.
InstallTargetName(a) ==
  IF a.strip THEN "install/strip" ELSE IF LocalInstall(a) THEN "install" ELSE ""

\* detail.target.Target.add: an ordered list without duplicates.
TargetAdd(ts, condition, name) ==
  IF condition /\ ~InSeq(name, ts) THEN Append(ts, name) ELSE ts

\* Lines 274-277: the two target.add calls.
Targets(a) ==
  TargetAdd(TargetAdd(<<>>, LocalInstall(a), InstallTargetName(a)),
            TruthyStr(a.target), IF a.target = None THEN "" ELSE Get(a.target))

\* Lines 296-298: --verbose forces the full verbosity level.
Verbosity(a) == IF a.verbose THEN "full" ELSE a.verbosity

\* Line 394: the toolset version from which MSVC gets /maxcpucount.
MinMaxCpuCountVersion == 12

\* Lines 387-395: the native parallelism tokens.
JobsTokens(entry, jobs) ==
  IF ~TruthyInt(jobs) THEN <<>>
  ELSE IF entry.is_xcode THEN <<"-jobs", FormatInt(Get(jobs))>>
  ELSE IF entry.is_make /\ ~entry.is_nmake THEN <<"-j", FormatInt(Get(jobs))>>
  ELSE IF entry.is_msvc /\ ParseInt(entry.vs_version) >= MinMaxCpuCountVersion
       THEN <<"/maxcpucount:" \o FormatInt(Get(jobs))>>
  ELSE <<>>

\* Lines 381-385: the iOS simulator tokens.
SimulatorTokens(a) ==
  IF a.iossim THEN <<"-arch", "i386", "-sdk", "iphonesimulator">> ELSE <<>>

\* Lines 372-374: the --config tokens of the build command.
BuildConfigTokens(a) ==
  IF TruthyStr(a.config) THEN <<"--config", Get(a.config)>> ELSE <<>>

\* Lines 366-395: build_command.
BuildCommand(a, entry, dir, ts) ==
  <<"cmake", "--build", dir>> \o BuildConfigTokens(a) \o FlattenTargets(ts)
    \o <<"--">> \o SimulatorTokens(a) \o JobsTokens(entry, a.jobs)

\* Lines 314-316: home.
Home(a) == IF TruthyStr(a.home) THEN Get(a.home) ELSE "."

\* A slip: the build type is defined for multiconfig toolchains too.
BuildTypeTokens_AnyToolchain(a, entry) ==
  IF TruthyStr(a.config) THEN <<"-DCMAKE_BUILD_TYPE=" \o Get(a.config)>> ELSE <<>>

\* Lines 324-325: the build type definition of the configure command.
BuildTypeTokens(a, entry) ==
  IF TruthyStr(a.config) /\ ~entry.multiconfig
  THEN <<"-DCMAKE_BUILD_TYPE=" \o Get(a.config)>> ELSE <<>>

\* Lines 327-328: the generator token.
GeneratorTokens(entry) ==
  IF entry.generator # "" THEN <<"-G" \o entry.generator>> ELSE <<>>

\* Lines 330-332: the XP toolset token.
ToolsetTokens(entry) ==
  IF entry.xp THEN <<"-T" \o ("v" \o entry.vs_version \o "0_xp")>> ELSE <<>>

\* Lines 337-340: the three diagnostic definitions of full verbosity.
VerbosityTokens(level) ==
  IF level = "full"
  THEN <<"-DCMAKE_VERBOSE_MAKEFILE=ON", "-DPOLLY_STATUS_DEBUG=ON", "-DHUNTER_STATUS_DEBUG=ON">>
  ELSE <<>>

\* Lines 342-346: the iOS definitions.
IosTokens(a) ==
  (IF a.ios_multiarch THEN <<"-DCMAKE_XCODE_ATTRIBUTE_ONLY_ACTIVE_ARCH=NO">> ELSE <<>>)
    \o (IF a.ios_combined THEN <<"-DCMAKE_IOS_INSTALL_COMBINED=YES">> ELSE <<>>)

\* Lines 354-356: the forwarded definitions.
FwdTokens(a) == IF a.fwd # None THEN PrefixEach("-D", Get(a.fwd)) ELSE <<>>

\* Lines 318-356: generate_command.
GenerateCommand(a, entry, dir_option, tc_option, inst_option, level) ==
  <<"cmake", "-H" \o Home(a), dir_option>>
    \o BuildTypeTokens(a, entry) \o GeneratorTokens(entry) \o ToolsetTokens(entry)
    \o (IF tc_option # "" THEN <<tc_option>> ELSE <<>>)
    \o VerbosityTokens(level) \o IosTokens(a)
    \o (IF LocalInstall(a) THEN <<inst_option>> ELSE <<>>)
    \o (IF TruthyStr(a.pack) THEN <<"-DCPACK_GENERATOR=" \o Get(a.pack)>> ELSE <<>>)
    \o FwdTokens(a)

(***************************************************************************)
(* The collaborators and the machine the script runs on                    *)
(***************************************************************************)
\* os.path.realpath of the directory above bin/ (lines 200-201).
polly_root == "/polly"

\* The toolchain file of a toolchain (line 243).
ToolchainPath(name) == os_path_join(polly_root, name \o ".cmake")

\* The names of the environment variables the script reads or writes.
EnvNames == {"PATH", "MINGW_PATH", "MSYS_PATH", "DEVELOPER_DIR", "XCODE_XCCONFIG_FILE"}

\* '{}'.format(v) for an optional string.
FormatOpt(o) == IF o = None THEN "None" ELSE Get(o)

\* detail.verify_mingw_path.verify / detail.verify_msys_path.verify:
\* the variable is set and names an existing directory.
verify(path, dirs) == path # None /\ NamesOneOf(Get(path), dirs)

\* detail.get_nmake_environment.get: the environment snapshot of one
\* compiler version and architecture; it replaces the whole environment.
get_nmake_environment(arch, vs_version) ==
  [n \in EnvNames |->
     IF n = "PATH" THEN Some("/vs" \o vs_version \o "/" \o arch \o "/bin") ELSE None]

\* os.name of the platform (line 307).
OsName(system) == IF system = "Windows" THEN "nt" ELSE "posix"

(***************************************************************************)
(* State                                                                   *)
(***************************************************************************)
VARIABLES
  args,                \* the parsed command line
  world,               \* the machine: platform, files, directories, lookups
  pc,                  \* the position in the script
  environ,             \* os.environ
  polly_toolchain, toolchain_entry, build_tag,
  toolchain_option, cdir, build_dir, install_dir, framework_dir, archives_dir,
  target, install_dir_option, verbosity,
  generate_command, build_command,
  removed,             \* the directories rmtree was called on, in order
  created,             \* the directories os.makedirs created
  lookups,             \* the external lookups made, in order
  started,             \* the external calls started, in order
  completed,           \* the external calls that returned to the script, in order
  failed,              \* the external calls that ended with a non-zero status, in order
  running,             \* the external call in progress, or None
  getcwd,              \* the current working directory
  exit_msg,            \* the message of sys.exit, or None
  printed              \* whether 'SUCCESS' has been printed

vars == <<args, world, pc, environ, polly_toolchain, toolchain_entry, build_tag,
          toolchain_option, cdir, build_dir, install_dir, framework_dir,
          archives_dir, target, install_dir_option, verbosity, generate_command,
          build_command, removed, created, lookups, started, completed, failed,
          running, getcwd, exit_msg, printed>>

resolved == <<polly_toolchain, toolchain_entry, build_tag>>

layout == <<toolchain_option, cdir, build_dir, install_dir, framework_dir,
            archives_dir, target, install_dir_option>>

commands == <<verbosity, generate_command, build_command>>

effects == <<removed, created, lookups, getcwd>>

calls == <<started, completed, failed, running>>

\* sys.exit(msg)
Exit(msg) == pc' = "exit" /\ exit_msg' = Some(msg)

\* Fall through to the next statement.
Goto(label) == pc' = label /\ UNCHANGED exit_msg

\* The statement that follows an external call (lines 307-439): the script
\* keeps no result of any call and tests none.
AfterStage(stage) ==
  CASE stage \in {"which", "where"} -> "version"
    [] stage = "version" -> "compose_generate"
    [] stage = "Generate" -> "compose_build"
    [] stage = "Build" -> "archive"
    [] stage = "Archive creation" -> "framework"
    [] stage = "Framework creation" -> "test"
    [] stage = "Test" -> "pack"
    [] stage = "Pack" -> "open"
    [] OTHER -> "success"

\* A blocking external call: it is started and the script waits for it.
Call(stage) ==
  /\ started' = Append(started, stage)
  /\ running' = Some(stage)
  /\ Goto("wait")
  /\ UNCHANGED <<completed, failed>>

(***************************************************************************)
(* The messages of the fatal exits                                         *)
(***************************************************************************)
MsgInvalidChoice == "argument --toolchain: invalid choice"

MsgMingw == "MINGW_PATH is not a directory"

MsgMsys == "MSYS_PATH is not a directory"

MsgToolchainFile == "Toolchain file not found: "

MsgNotDir == "Specified build directory does not exists: "

MsgNotWriteable == "Specified build directory is not writeable: "

MsgInstallStrip == "Both --install and --strip specified"

MsgStrip == "CMake install/strip targets are only supported for the Unix Makefile generator"

MsgFramework == "Framework creation only for Mac OS X"

MsgRmtree == "rmtree failed"

MsgExternal == "external tool failed"

(***************************************************************************)
(* The script, statement by statement                                      *)
(***************************************************************************)
\* Line 194: argparse rejects a --toolchain outside its choices (line 57).
ParseArgs ==
  /\ pc = "parse"
  /\ IF args.toolchain # None /\ Get(args.toolchain) \notin toolchain_names
     THEN Exit(MsgInvalidChoice)
     ELSE Goto("resolve")
  /\ UNCHANGED <<args, world, environ, resolved, layout, commands, effects, calls, printed>>

\* Lines 196-207: resolve the toolchain and derive the build tag.
Resolve ==
  /\ pc = "resolve"
  /\ polly_toolchain' = toolchain_name_get(args.toolchain)
  /\ toolchain_entry' = get_by_name(polly_toolchain')
  /\ build_tag' = BuildTag(polly_toolchain', toolchain_entry'.multiconfig, args.config)
  /\ Goto("tune_mingw")
  /\ UNCHANGED <<args, world, environ, layout, commands, effects, calls, printed>>

\* A slip: PATH is changed before the root is verified.
TunedPath_BeforeVerify(env, var, dirs) ==
  [env EXCEPT !["PATH"] = Some(FormatOpt(env[var]) \o ";" \o FormatOpt(env["PATH"]))]

\* Lines 211-213 and 216-218: once the root is verified it is put in front
\* of PATH; a run whose root fails the verification leaves os.environ alone.
TunedPath(env, var, dirs) ==
  IF verify(env[var], dirs)
  THEN [env EXCEPT !["PATH"] = Some(FormatOpt(env[var]) \o ";" \o FormatOpt(env["PATH"]))]
  ELSE env

\* Lines 210-213: MinGW needs MINGW_PATH, which is put in front of PATH.
TuneMingw ==
  /\ pc = "tune_mingw"
  /\ IF toolchain_entry.name = "mingw" \/ toolchain_entry.name = "mingw-c11"
     THEN /\ environ' = TunedPath(environ, "MINGW_PATH", world.dirs)
          /\ IF verify(environ["MINGW_PATH"], world.dirs)
             THEN Goto("tune_msys")
             ELSE Exit(MsgMingw)
     ELSE /\ Goto("tune_msys")
          /\ UNCHANGED environ
  /\ UNCHANGED <<args, world, resolved, layout, commands, effects, calls, printed>>

\* Lines 215-218: MSYS needs MSYS_PATH, which is put in front of PATH.
TuneMsys ==
  /\ pc = "tune_msys"
  /\ IF toolchain_entry.name = "msys"
     THEN /\ environ' = TunedPath(environ, "MSYS_PATH", world.dirs)
          /\ IF verify(environ["MSYS_PATH"], world.dirs)
             THEN Goto("tune_nmake")
             ELSE Exit(MsgMsys)
     ELSE /\ Goto("tune_nmake")
          /\ UNCHANGED environ
  /\ UNCHANGED <<args, world, resolved, layout, commands, effects, calls, printed>>

\* Lines 220-224: NMake, and Ninja with Visual Studio, run in the vendor's
\* environment snapshot, which replaces os.environ.
TuneNmake ==
  /\ pc = "tune_nmake"
  /\ IF toolchain_entry.is_nmake \/ (toolchain_entry.is_ninja /\ toolchain_entry.vs_version # "")
     THEN /\ environ' = get_nmake_environment(toolchain_entry.arch, toolchain_entry.vs_version)
          /\ lookups' = Append(lookups, "get_nmake_environment")
     ELSE UNCHANGED <<environ, lookups>>
  /\ Goto("tune_ios")
  /\ UNCHANGED <<args, world, resolved, layout, commands, removed, created, getcwd, calls, printed>>

\* Lines 226-230: DEVELOPER_DIR of an iOS SDK, when the lookup finds one.
TuneIos ==
  /\ pc = "tune_ios"
  /\ IF toolchain_entry.ios_version # ""
     THEN /\ lookups' = Append(lookups, "ios_dev_root")
          /\ environ' = IF TruthyStr(world.ios_dev_root)
                        THEN [environ EXCEPT !["DEVELOPER_DIR"] = world.ios_dev_root]
                        ELSE environ
     ELSE UNCHANGED <<environ, lookups>>
  /\ Goto("tune_nocodesign")
  /\ UNCHANGED <<args, world, resolved, layout, commands, removed, created, getcwd, calls, printed>>

\* Lines 232-235: XCODE_XCCONFIG_FILE of a toolchain without code signing.
TuneNoCodeSign ==
  /\ pc = "tune_nocodesign"
  /\ environ' = IF toolchain_entry.nocodesign
                THEN [environ EXCEPT !["XCODE_XCCONFIG_FILE"] =
                        Some(os_path_join(os_path_join(polly_root, "scripts"), "NoCodeSign.xcconfig"))]
                ELSE environ
  /\ Goto("tune_osx")
  /\ UNCHANGED <<args, world, resolved, layout, commands, effects, calls, printed>>

\* Lines 237-241: DEVELOPER_DIR of an OS X SDK, when the lookup finds one.
TuneOsx ==
  /\ pc = "tune_osx"
  /\ IF toolchain_entry.osx_version # ""
     THEN /\ lookups' = Append(lookups, "osx_dev_root")
          /\ environ' = IF TruthyStr(world.osx_dev_root)
                        THEN [environ EXCEPT !["DEVELOPER_DIR"] = world.osx_dev_root]
                        ELSE environ
     ELSE UNCHANGED <<environ, lookups>>
  /\ Goto("check_toolchain_file")
  /\ UNCHANGED <<args, world, resolved, layout, commands, removed, created, getcwd, calls, printed>>

\* Lines 243-246: the toolchain file must exist.
CheckToolchainFile ==
  /\ pc = "check_toolchain_file"
  /\ IF ToolchainPath(polly_toolchain) \notin world.files
     THEN /\ Exit(MsgToolchainFile \o ToolchainPath(polly_toolchain))
          /\ UNCHANGED toolchain_option
     ELSE /\ toolchain_option' = "-DCMAKE_TOOLCHAIN_FILE=" \o ToolchainPath(polly_toolchain)
          /\ Goto("check_output")
  /\ UNCHANGED <<args, world, environ, resolved, cdir, build_dir, install_dir, framework_dir,
                 archives_dir, target, install_dir_option, commands, effects, calls, printed>>

\* Lines 248-255: --output must be a writeable directory; the default is
\* the current directory.
CheckOutput ==
  /\ pc = "check_output"
  /\ IF TruthyStr(args.output)
     THEN IF ~NamesOneOf(Get(args.output), world.dirs)
          THEN /\ Exit(MsgNotDir \o Get(args.output))
               /\ UNCHANGED cdir
          ELSE IF ~NamesOneOf(Get(args.output), world.writable)
          THEN /\ Exit(MsgNotWriteable \o Get(args.output))
               /\ UNCHANGED cdir
          ELSE /\ cdir' = Get(args.output)
               /\ Goto("plan_layout")
     ELSE /\ cdir' = getcwd
          /\ Goto("plan_layout")
  /\ UNCHANGED <<args, world, environ, resolved, toolchain_option, build_dir, install_dir,
                 framework_dir, archives_dir, target, install_dir_option, commands, effects,
                 calls, printed>>

\* Lines 257-262: the build and install directories.
PlanLayout ==
  /\ pc = "plan_layout"
  /\ build_dir' = BuildDir(cdir, build_tag)
  /\ install_dir' = InstallDir(cdir, polly_toolchain)
  /\ Goto("check_install_strip")
  /\ UNCHANGED <<args, world, environ, resolved, toolchain_option, cdir, framework_dir,
                 archives_dir, target, install_dir_option, commands, effects, calls, printed>>

\* A slip: the conflict is seen only when no other local install is asked for.
InstallStripConflict_Narrow(a) == a.install /\ a.strip /\ ~a.framework

\* Line 264: the condition of the conflicting install modes.
InstallStripConflict(a) == a.install /\ a.strip

\* Lines 264-265: --install and --strip exclude each other.
CheckInstallStrip ==
  /\ pc = "check_install_strip"
  /\ IF InstallStripConflict(args) THEN Exit(MsgInstallStrip) ELSE Goto("select_targets")
  /\ UNCHANGED <<args, world, environ, resolved, layout, commands, effects, calls, printed>>

\* Lines 267-277: the target list.
SelectTargets ==
  /\ pc = "select_targets"
  /\ target' = Targets(args)
  /\ Goto("check_strip")
  /\ UNCHANGED <<args, world, environ, resolved, toolchain_option, cdir, build_dir, install_dir,
                 framework_dir, archives_dir, install_dir_option, commands, effects, calls,
                 printed>>

\* Lines 280-284: install/strip needs a Makefile generator.
CheckStrip ==
  /\ pc = "check_strip"
  /\ IF args.strip /\ ~toolchain_entry.is_make
     THEN /\ Exit(MsgStrip)
          /\ UNCHANGED install_dir_option
     ELSE /\ install_dir_option' = IF LocalInstall(args)
                                   THEN "-DCMAKE_INSTALL_PREFIX=" \o install_dir
                                   ELSE install_dir_option
          /\ Goto("check_framework")
  /\ UNCHANGED <<args, world, environ, resolved, toolchain_option, cdir, build_dir, install_dir,
                 framework_dir, archives_dir, target, commands, effects, calls, printed>>

\* A slip: --framework-device is forgotten.
FrameworkOffMac_NoDevice(a, system) == a.framework /\ system # "Darwin"

\* Line 286: the condition of the platform error.
FrameworkOffMac(a, system) == (a.framework \/ a.framework_device) /\ system # "Darwin"

\* Lines 286-289: frameworks are made on Mac OS X only.
CheckFramework ==
  /\ pc = "check_framework"
  /\ IF FrameworkOffMac(args, world.system)
     THEN /\ Exit(MsgFramework)
          /\ UNCHANGED <<framework_dir, archives_dir>>
     ELSE /\ framework_dir' = FrameworkDir(cdir, polly_toolchain)
          /\ archives_dir' = ArchivesDir(cdir)
          /\ Goto("clear")
  /\ UNCHANGED <<args, world, environ, resolved, toolchain_option, cdir, build_dir, install_dir,
                 target, install_dir_option, commands, effects, calls, printed>>

\* A slip: the framework directory is left behind.
ClearList_NoFramework == <<build_dir, install_dir>>

\* The directories --clear removes, in order (lines 292-294).
ClearList == <<build_dir, install_dir, framework_dir>>

\* Lines 291-294: --clear removes three directories; a removal that fails
\* ends the run.
Clear ==
  /\ pc = "clear"
  /\ IF args.clear
     THEN \E n \in 0..Len(ClearList) :
            /\ removed' = removed \o SubSeq(ClearList, 1, n)
            /\ IF n = Len(ClearList) THEN Goto("make_temp_dir") ELSE Exit(MsgRmtree)
     ELSE /\ Goto("make_temp_dir")
          /\ UNCHANGED removed
  /\ UNCHANGED <<args, world, environ, resolved, layout, commands, created, lookups, getcwd,
                 calls, printed>>

\* Line 300: polly_temp_dir.
PollyTempDir(dir) == os_path_join(os_path_join(dir, "_3rdParty"), "polly")

\* Lines 296-305: the verbosity level, the temporary directory, the logger.
MakeTempDir ==
  /\ pc = "make_temp_dir"
  /\ verbosity' = Verbosity(args)
  /\ created' = IF NamesOneOf(PollyTempDir(build_dir), world.dirs)
                THEN created
                ELSE created \cup {PollyTempDir(build_dir)}
  /\ Goto("which_cmake")
  /\ UNCHANGED <<args, world, environ, resolved, layout, generate_command, build_command,
                 removed, lookups, getcwd, calls, printed>>

\* Lines 307-311: locate cmake.
WhichCmake ==
  /\ pc = "which_cmake"
  /\ Call(IF OsName(world.system) = "nt" THEN "where" ELSE "which")
  /\ UNCHANGED <<args, world, environ, resolved, layout, commands, effects, printed>>

\* Line 312: cmake --version.
CmakeVersion ==
  /\ pc = "version"
  /\ Call("version")
  /\ UNCHANGED <<args, world, environ, resolved, layout, commands, effects, printed>>

\* Lines 314-356: compose the configure command.
ComposeGenerate ==
  /\ pc = "compose_generate"
  /\ generate_command' = GenerateCommand(args, toolchain_entry, "-B" \o build_dir,
                                         toolchain_option, install_dir_option, verbosity)
  /\ Goto("generate")
  /\ UNCHANGED <<args, world, environ, resolved, layout, verbosity, build_command, effects,
                 calls, printed>>

\* Lines 358-364: the configure stage.
Generate ==
  /\ pc = "generate"
  /\ Call("Generate")
  /\ UNCHANGED <<args, world, environ, resolved, layout, commands, effects, printed>>

\* Lines 366-395: compose the build command.
ComposeBuild ==
  /\ pc = "compose_build"
  /\ build_command' = BuildCommand(args, toolchain_entry, build_dir, target)
  /\ Goto("build")
  /\ UNCHANGED <<args, world, environ, resolved, layout, verbosity, generate_command, effects,
                 calls, printed>>

\* A slip: the archive block is left outside the 'if not args.nobuild' block.
AfterNoBuild_ArchiveOutside == "archive"

\* Lines 397 and 427: with --nobuild both guarded blocks are skipped, and the
\* next statement is the one of line 438.
AfterNoBuild == "open"

\* Lines 397-400: the build stage, unless --nobuild.
Build ==
  /\ pc = "build"
  /\ IF ~args.nobuild
     THEN Call("Build")
     ELSE Goto(AfterNoBuild) /\ UNCHANGED calls
  /\ UNCHANGED <<args, world, environ, resolved, layout, commands, effects, printed>>

\* Lines 402-411: the archive of the installed files.
Archive ==
  /\ pc = "archive"
  /\ IF TruthyStr(args.archive)
     THEN Call("Archive creation")
     ELSE Goto("framework") /\ UNCHANGED calls
  /\ UNCHANGED <<args, world, environ, resolved, layout, commands, effects, printed>>

\* Lines 413-425: the framework.
Framework ==
  /\ pc = "framework"
  /\ IF args.framework \/ args.framework_device
     THEN Call("Framework creation")
     ELSE Goto("test") /\ UNCHANGED calls
  /\ UNCHANGED <<args, world, environ, resolved, layout, commands, effects, printed>>

\* Lines 427-432: enter the build directory and run the tests.
Test ==
  /\ pc = "test"
  /\ getcwd' = build_dir
  /\ IF args.test \/ TruthyStr(args.test_xml)
     THEN Call("Test")
     ELSE Goto("pack") /\ UNCHANGED calls
  /\ UNCHANGED <<args, world, environ, resolved, layout, commands, removed, created, lookups,
                 printed>>

\* Lines 433-436: cpack.
Pack ==
  /\ pc = "pack"
  /\ IF TruthyStr(args.pack)
     THEN Call("Pack")
     ELSE Goto("open") /\ UNCHANGED calls
  /\ UNCHANGED <<args, world, environ, resolved, layout, commands, effects, printed>>

\* Lines 438-439: open the generated project.
Open ==
  /\ pc = "open"
  /\ IF args.open
     THEN Call("open")
     ELSE Goto("success") /\ UNCHANGED calls
  /\ UNCHANGED <<args, world, environ, resolved, layout, commands, effects, printed>>

\* The exit statuses of an external tool: zero, or not.
ExitCodes == {0, 1}

\* What a call of the detail package can do once its tool has ended with the
\* given status.  The runner hands the status back (run(argv, env, cwd) ->
\* exitCode); whether the package itself ends the process on a non-zero
\* status (sys.exit is raised inside the call) or hands it back to the script
\* is decided in the package, so both are outcomes of a failed call.
CallOutcomes(code) == IF code = 0 THEN {"returns"} ELSE {"returns", "exits"}

\* The external call in progress ends.  When it returns, the script discards
\* its result and goes on with the next statement (lines 307-439 test no
\* result and catch nothing); when it exits, the run is over.
Return ==
  /\ pc = "wait"
  /\ \E code \in ExitCodes : \E outcome \in CallOutcomes(code) :
       /\ failed' = IF code # 0 THEN Append(failed, Get(running)) ELSE failed
       /\ IF outcome = "returns"
          THEN completed' = Append(completed, Get(running)) /\ Goto(AfterStage(Get(running)))
          ELSE UNCHANGED completed /\ Exit(MsgExternal)
  /\ running' = None
  /\ UNCHANGED <<args, world, environ, resolved, layout, commands, effects, started, printed>>

\* Lines 441-446: the summary and 'SUCCESS'.
Success ==
  /\ pc = "success"
  /\ printed' = TRUE
  /\ Goto("done")
  /\ UNCHANGED <<args, world, environ, resolved, layout, commands, effects, calls>>

Next ==
  \/ ParseArgs \/ Resolve
  \/ TuneMingw \/ TuneMsys \/ TuneNmake \/ TuneIos \/ TuneNoCodeSign \/ TuneOsx
  \/ CheckToolchainFile \/ CheckOutput \/ PlanLayout \/ CheckInstallStrip
  \/ SelectTargets \/ CheckStrip \/ CheckFramework \/ Clear \/ MakeTempDir
  \/ WhichCmake \/ CmakeVersion \/ ComposeGenerate \/ Generate \/ ComposeBuild
  \/ Build \/ Archive \/ Framework \/ Test \/ Pack \/ Open \/ Return \/ Success

(***************************************************************************)
(* Initial states: the command lines and machines the runs start from      *)
(***************************************************************************)
\* The argparse defaults (lines 55-192).
DefaultArgs ==
  [toolchain |-> None, config |-> None, home |-> None, output |-> None,
   test |-> FALSE, test_xml |-> None, pack |-> None, archive |-> None,
   nobuild |-> FALSE, open |-> FALSE, verbosity |-> "normal", verbose |-> FALSE,
   install |-> FALSE, ios_multiarch |-> FALSE, ios_combined |-> FALSE,
   framework |-> FALSE, framework_device |-> FALSE, strip |-> FALSE,
   clear |-> FALSE, fwd |-> None, iossim |-> FALSE, jobs |-> None, target |-> None]

\* The longest --fwd list of the runs checked.
MaxFwd == 2

\* The largest --jobs value of the runs checked.
MaxJobs == 4

FwdEntries == {"A=1", "A=2"}

RECURSIVE SeqsUpTo(_, _)
\* The sequences over S of length at most n.
SeqsUpTo(S, n) ==
  IF n = 0 THEN {<<>>}
  ELSE LET shorter == SeqsUpTo(S, n - 1)
       IN  shorter \cup { Append(q, x) : q \in shorter, x \in S }

Fwds == {None} \cup { Some(q) : q \in SeqsUpTo(FwdEntries, MaxFwd) }

Jobs == {None} \cup { Some(n) : n \in {-1, 0, 1, MaxJobs} }

AllToolchainFiles == { ToolchainPath(n) : n \in toolchain_names }

Machine(system, files, env) ==
  [system |-> system, files |-> files, environ |-> env,
   dirs |-> {"/cwd", "/", "/out", "/ro", "/mingw/bin", "/msys/bin"},
   writable |-> {"/cwd", "/", "/out", "/mingw/bin", "/msys/bin"},
   ios_dev_root |-> Some("/Xcode-ios"), osx_dev_root |-> None]

\* The inherited environment, with or without MINGW_PATH and MSYS_PATH.
Environment(with_roots) ==
  [n \in EnvNames |->
     CASE n = "PATH" -> Some("/usr/bin")
       [] n = "MINGW_PATH" -> IF with_roots THEN Some("/mingw/bin") ELSE None
       [] n = "MSYS_PATH" -> IF with_roots THEN Some("/msys/bin") ELSE Some("/nowhere")
       [] OTHER -> None]

Start(a, w) ==
  /\ args = a
  /\ world = w
  /\ environ = w.environ
  /\ pc = "parse"
  /\ polly_toolchain = ""
  /\ toolchain_entry = NoEntry
  /\ build_tag = ""
  /\ toolchain_option = ""
  /\ cdir = ""
  /\ build_dir = ""
  /\ install_dir = ""
  /\ framework_dir = ""
  /\ archives_dir = ""
  /\ target = <<>>
  /\ install_dir_option = ""
  /\ verbosity = a.verbosity
  /\ generate_command = <<>>
  /\ build_command = <<>>
  /\ removed = <<>>
  /\ created = {}
  /\ lookups = <<>>
  /\ started = <<>>
  /\ completed = <<>>
  /\ failed = <<>>
  /\ running = None
  /\ getcwd = "/cwd"
  /\ exit_msg = None
  /\ printed = FALSE

\* Runs that exercise resolution, the environment, the validations and --clear.
Init ==
  \E t \in {None, Some("unknown"), Some("ninja"), Some("xcode"), Some("mingw"), Some("msys"),
            Some("nmake-vs-12-2013"), Some("ios-nocodesign"), Some("osx-10-11")},
     o \in {None, Some("/out"), Some("/out/"), Some("/missing"), Some("/ro")},
     i \in BOOLEAN, s \in BOOLEAN, c \in BOOLEAN,
     f \in {<<FALSE, FALSE>>, <<TRUE, FALSE>>, <<FALSE, TRUE>>},
     system \in {"Darwin", "Linux"}, files \in {AllToolchainFiles, {}},
     with_roots \in BOOLEAN :
    Start([DefaultArgs EXCEPT !.toolchain = t, !.output = o, !.install = i, !.strip = s,
                              !.clear = c, !.framework = f[1], !.framework_device = f[2]],
          Machine(system, files, Environment(with_roots)))

Spec == Init /\ [][Next]_vars

\* Runs that exercise the stage pipeline.
InitStages ==
  \E t \in {Some("ninja"), Some("xcode")},
     nb \in BOOLEAN, ar \in {None, Some("tgz")}, f \in BOOLEAN, te \in BOOLEAN,
     tx \in {None, Some("out.xml")}, pk \in {None, Some("TGZ")}, op \in BOOLEAN,
     c \in BOOLEAN, system \in {"Darwin", "Windows"} :
    Start([DefaultArgs EXCEPT !.toolchain = t, !.nobuild = nb, !.archive = ar, !.framework = f,
                              !.test = te, !.test_xml = tx, !.pack = pk, !.open = op,
                              !.clear = c],
          Machine(system, AllToolchainFiles, Environment(TRUE)))

SpecStages == InitStages /\ [][Next]_vars

\* Runs that exercise the build tag and the directory layout.
InitLayout ==
  \E t \in {None} \cup { Some(n) : n \in toolchain_names },
     cfg \in {None, Some(""), Some("Release"), Some("c11")},
     o \in {None, Some("/out"), Some("/out/"), Some("/")} :
    Start([DefaultArgs EXCEPT !.toolchain = t, !.config = cfg, !.output = o, !.clear = TRUE],
          Machine("Linux", AllToolchainFiles, Environment(TRUE)))

SpecLayout == InitLayout /\ [][Next]_vars

\* Runs that exercise the configure command.
InitConfigure ==
  \E t \in {None, Some("ninja"), Some("xcode"), Some("mingw"), Some("vs-12-2013-xp"),
            Some("nmake-vs-12-2013")},
     cfg \in {None, Some(""), Some("Release")},
     h \in {None, Some("src")}, fw \in Fwds, v \in BOOLEAN, i \in BOOLEAN,
     pk \in {None, Some("TGZ")} :
    Start([DefaultArgs EXCEPT !.toolchain = t, !.config = cfg, !.home = h, !.fwd = fw,
                              !.verbose = v, !.install = i, !.pack = pk,
                              !.ios_multiarch = v, !.ios_combined = i],
          Machine("Linux", AllToolchainFiles, Environment(TRUE)))

SpecConfigure == InitConfigure /\ [][Next]_vars

\* Runs that exercise the build command.
InitBuild ==
  \E t \in {None, Some("ninja"), Some("xcode"), Some("mingw"), Some("nmake-vs-12-2013"),
            Some("vs-12-2013"), Some("vs-10-2010")},
     cfg \in {None, Some(""), Some("Debug")},
     j \in Jobs, sim \in BOOLEAN, tg \in {None, Some("install"), Some("doc")},
     i \in BOOLEAN :
    Start([DefaultArgs EXCEPT !.toolchain = t, !.config = cfg, !.jobs = j, !.iossim = sim,
                              !.target = tg, !.install = i],
          Machine("Linux", AllToolchainFiles, Environment(TRUE)))

SpecBuild == InitBuild /\ [][Next]_vars

(***************************************************************************)
(* Vocabulary of the properties                                            *)
(***************************************************************************)
\* The positions before the last validation (line 287) has passed.
ValidationLabels ==
  {"parse", "resolve", "tune_mingw", "tune_msys", "tune_nmake", "tune_ios",
   "tune_nocodesign", "tune_osx", "check_toolchain_file", "check_output",
   "plan_layout", "check_install_strip", "select_targets", "check_strip",
   "check_framework"}

\* The run has ended in a validation error.
ValidationError ==
  pc = "exit" /\ exit_msg \notin {Some(MsgRmtree), Some(MsgExternal)}

\* The name the run resolves its --toolchain to.
RequestedName == toolchain_name_get(args.toolchain)

\* The checks made before the install/strip conflict check pass on this input.
ChecksBeforeConflictPass ==
  /\ args.toolchain # None => Get(args.toolchain) \in toolchain_names
  /\ RequestedName \in {"mingw", "mingw-c11"} =>
       (world.environ["MINGW_PATH"] # None /\ NamesOneOf(Get(world.environ["MINGW_PATH"]), world.dirs))
  /\ RequestedName = "msys" =>
       (world.environ["MSYS_PATH"] # None /\ NamesOneOf(Get(world.environ["MSYS_PATH"]), world.dirs))
  /\ os_path_join(polly_root, RequestedName \o ".cmake") \in world.files
  /\ (args.output # None /\ Get(args.output) # "") =>
       (NamesOneOf(Get(args.output), world.dirs) /\ NamesOneOf(Get(args.output), world.writable))

\* The checks made before the framework platform check pass on this input.
ChecksBeforeFrameworkPass ==
  /\ ChecksBeforeConflictPass
  /\ ~(args.install /\ args.strip)
  /\ args.strip => get_by_name(RequestedName).is_make

\* The toolchain is one whose environment lines 209-241 tune.
TunesEnvironment(e) ==
  \/ e.name \in {"mingw", "mingw-c11", "msys"}
  \/ e.is_nmake \/ (e.is_ninja /\ e.vs_version # "")
  \/ e.ios_version # "" \/ e.osx_version # "" \/ e.nocodesign

\* The last element of a non-empty sequence.
Last(q) == q[Len(q)]

\* The fixed order of the external calls.
Rank(stage) ==
  CASE stage \in {"which", "where"} -> 1
    [] stage = "version" -> 2
    [] stage = "Generate" -> 3
    [] stage = "Build" -> 4
    [] stage = "Archive creation" -> 5
    [] stage = "Framework creation" -> 6
    [] stage = "Test" -> 7
    [] stage = "Pack" -> 8
    [] OTHER -> 9

BuildStages == {"Build", "Archive creation", "Framework creation", "Test", "Pack"}

(***************************************************************************)
(* C1                                                                      *)
(***************************************************************************)
\* C1 as stated: in every run that ends in a validation error the process
\* environment is unchanged, no external lookup or process has been started
\* and no directory has been removed or created.
C1_AsStated ==
  ValidationError =>
    /\ environ = world.environ
    /\ lookups = <<>>
    /\ started = <<>>
    /\ removed = <<>>
    /\ created = {}

\* C1, amended: in every run that ends in a validation error no external
\* process has been started, no command has been composed and no directory has
\* been removed or created.  The environment is unchanged and no lookup has
\* been made when the error is the unknown toolchain or the missing MINGW/MSYS
\* path; the later checks run after the environment has been tuned, so the
\* environment may differ and lookups may have been made, but only for a
\* toolchain whose environment the script tunes.
C1_Validation ==
  ValidationError =>
    /\ started = <<>> /\ running = None
    /\ removed = <<>> /\ created = {}
    /\ generate_command = <<>> /\ build_command = <<>>
    /\ exit_msg \in {Some(MsgInvalidChoice), Some(MsgMingw), Some(MsgMsys)} =>
         (environ = world.environ /\ lookups = <<>>)
    /\ (environ # world.environ \/ lookups # <<>>) => TunesEnvironment(toolchain_entry)

\* A run ends in the missing-toolchain-file error with the environment
\* already replaced by the nmake snapshot.
C1_Witness ==
  /\ pc = "exit"
  /\ exit_msg = Some(MsgToolchainFile \o os_path_join(polly_root, "nmake-vs-12-2013.cmake"))
  /\ environ # world.environ
  /\ lookups = <<"get_nmake_environment">>
  /\ removed = <<>> /\ created = {} /\ started = <<>>

(***************************************************************************)
(* C2                                                                      *)
(***************************************************************************)
\* C2 as stated: a run with both --install and --strip, for any toolchain of
\* the table (with its MINGW/MSYS root in place), always ends with the message
\* 'Both --install and --strip specified', before any command is composed.
C2_AsStated ==
  (args.install /\ args.strip /\ RequestedName \in toolchain_names) =>
    /\ (pc = "exit" /\ exit_msg \notin {Some(MsgMingw), Some(MsgMsys)}) =>
         exit_msg = Some(MsgInstallStrip)
    /\ generate_command = <<>> /\ build_command = <<>>

\* C2, amended: a run with both --install and --strip always ends in a fatal
\* exit at or before the conflict check, before any command is composed and
\* before any external process is started; its message is 'Both --install and
\* --strip specified' exactly when the earlier checks (known toolchain,
\* MINGW/MSYS path, toolchain file, --output) pass, and otherwise the message
\* of the earlier check that fails.
C2_InstallStrip ==
  (args.install /\ args.strip) =>
    /\ pc \in (ValidationLabels \ {"select_targets", "check_strip", "check_framework"}) \cup {"exit"}
    /\ generate_command = <<>> /\ build_command = <<>> /\ started = <<>>
    /\ pc = "exit" =>
         /\ ValidationError
         /\ exit_msg = Some(MsgInstallStrip) <=> ChecksBeforeConflictPass

\* A run with --install --strip, and --framework as well, ends with the
\* conflict message.
C2_Witness ==
  /\ args.install /\ args.strip /\ args.framework
  /\ pc = "exit"
  /\ exit_msg = Some(MsgInstallStrip)

(***************************************************************************)
(* C3                                                                      *)
(***************************************************************************)
\* C3, the part the script decides: an external call that has not returned is
\* the last one started and is the call in progress, or the run has ended
\* inside it; each stage starts only after the one before it has returned.
C3_Sequential ==
  /\ \A i \in 1..Len(started) :
       ~InSeq(started[i], completed) =>
         /\ i = Len(started)
         /\ running = Some(started[i]) \/ (pc = "exit" /\ exit_msg = Some(MsgExternal))
  /\ running # None => (pc = "wait" /\ Get(running) = Last(started))

\* C3, the part the detail package decides: a configure or build stage that
\* ended with a non-zero status is the last call started, and 'SUCCESS' is not
\* printed after it.  It holds on the runs in which the failed call exits and
\* fails on the runs in which the failed call returns, the script discarding
\* every result.
C3_FailureIsFatal ==
  \A i \in 1..Len(started) :
    (started[i] \in {"Generate", "Build"} /\ InSeq(started[i], failed)) =>
      (i = Len(started) /\ ~printed)

\* The runs in which every failed call has exited.
C3_FailedCallsExit == \A i \in 1..Len(failed) : ~InSeq(failed[i], completed)

\* C3 on the runs in which every failed call has exited.
C3_FatalWhenCallsExit == C3_FailedCallsExit => C3_FailureIsFatal

\* The build stage failed and exited in a run that asked for an archive, tests,
\* a package and the project to be opened: none of them was started.
C3_BuildFailedAndExited ==
  /\ pc = "exit" /\ exit_msg = Some(MsgExternal)
  /\ Last(started) = "Build" /\ failed = <<"Build">>
  /\ TruthyStr(args.archive) /\ args.test /\ TruthyStr(args.pack) /\ args.open

\* The build stage failed and returned in the same run: the later stages ran
\* and 'SUCCESS' was printed.
C3_BuildFailedAndReturned ==
  /\ printed /\ failed = <<"Build">>
  /\ InSeq("Archive creation", completed) /\ InSeq("Pack", completed)

(***************************************************************************)
(* C4                                                                      *)
(***************************************************************************)
\* C4: once the toolchain is resolved, the build tag is "<name>-<config>"
\* exactly when a non-empty config is given and the toolchain is not
\* multiconfig, and the toolchain name alone in every other case.
C4_BuildTag ==
  pc \notin {"parse", "resolve"} /\ ~(pc = "exit" /\ exit_msg = Some(MsgInvalidChoice)) =>
    IF args.config # None /\ Get(args.config) # "" /\ ~get_by_name(RequestedName).multiconfig
    THEN build_tag = RequestedName \o "-" \o Get(args.config)
    ELSE build_tag = RequestedName

\* A multiconfig toolchain with a config: the tag is the name alone.
C4_Witness ==
  /\ pc = "done"
  /\ args.toolchain = Some("xcode") /\ args.config = Some("Release")
  /\ build_tag = "xcode"

(***************************************************************************)
(* C5                                                                      *)
(***************************************************************************)
\* C5: under one root directory the build, install and framework directories
\* of this run differ from those of any run for another toolchain name,
\* whatever config that other run is given.
C5_NoCollision ==
  pc \in {"clear", "make_temp_dir", "done"} =>
    \A b \in toolchain_names \ {polly_toolchain} :
      \A cfg \in {None, Some(""), Some("Release"), Some("c11")} :
        /\ BuildDir(cdir, BuildTag(b, get_by_name(b).multiconfig, cfg)) # build_dir
        /\ InstallDir(cdir, b) # install_dir
        /\ FrameworkDir(cdir, b) # framework_dir

(***************************************************************************)
(* C6                                                                      *)
(***************************************************************************)
\* C6 as stated: a run with --framework or --framework-device off Mac OS X,
\* for any toolchain of the table (with its MINGW/MSYS root in place), always
\* ends with the message 'Framework creation only for Mac OS X'.
C6_AsStated ==
  ((args.framework \/ args.framework_device) /\ world.system # "Darwin"
     /\ RequestedName \in toolchain_names) =>
    /\ pc \in ValidationLabels \cup {"exit"}
    /\ (pc = "exit" /\ exit_msg \notin {Some(MsgMingw), Some(MsgMsys)}) =>
         exit_msg = Some(MsgFramework)

\* C6, amended: a run with --framework or --framework-device off Mac OS X
\* always ends in a validation error at or before the platform check, with
\* nothing removed, created or started; its message is 'Framework creation
\* only for Mac OS X' exactly when the earlier checks (known toolchain,
\* MINGW/MSYS path, toolchain file, --output, install/strip conflict, strip on
\* a Makefile generator) pass, and otherwise the message of the earlier check
\* that fails.
C6_FrameworkOffMac ==
  ((args.framework \/ args.framework_device) /\ world.system # "Darwin") =>
    /\ pc \in ValidationLabels \cup {"exit"}
    /\ started = <<>> /\ removed = <<>> /\ created = {}
    /\ pc = "exit" =>
         /\ ValidationError
         /\ exit_msg = Some(MsgFramework) <=> ChecksBeforeFrameworkPass

\* A run with --framework-device alone on Linux ends with the platform error.
C6_Witness ==
  /\ args.framework_device /\ ~args.framework /\ world.system = "Linux"
  /\ pc = "exit"
  /\ exit_msg = Some(MsgFramework)

(***************************************************************************)
(* C7                                                                      *)
(***************************************************************************)
\* The parallelism tokens C7 describes for a run with --jobs N.
C7_Parallelism ==
  LET e == get_by_name(RequestedName)
      n == ToString(Get(args.jobs))
  IN  IF args.jobs = None THEN <<>>
      ELSE IF e.is_xcode THEN <<"-jobs", n>>
      ELSE IF e.is_make /\ ~e.is_nmake THEN <<"-j", n>>
      ELSE IF e.is_msvc /\ ParseInt(e.vs_version) >= 12 THEN <<"/maxcpucount:" \o n>>
      ELSE <<>>

\* The build command C7 describes.
C7_Expected ==
  <<"cmake", "--build", build_dir>>
    \o (IF args.config \notin {None, Some("")} THEN <<"--config", Get(args.config)>> ELSE <<>>)
    \o [i \in 1..(2 * Len(target)) |-> IF i % 2 = 1 THEN "--target" ELSE target[i \div 2]]
    \o <<"--">>
    \o (IF args.iossim THEN <<"-arch", "i386", "-sdk", "iphonesimulator">> ELSE <<>>)
    \o C7_Parallelism

\* C7: the build command is cmake --build <buildDir>, the config tokens iff a
\* config was requested, the target arguments, one '--', the simulator tokens
\* iff an iOS-simulator build was requested, and the parallelism tokens of the
\* driver iff --jobs was given.
C7_AsStated ==
  pc \in {"build", "done"} => build_command = C7_Expected

(***************************************************************************)
(* C8                                                                      *)
(***************************************************************************)
\* The --fwd list of the run, empty when the option is absent.
C8_Forwarded == IF args.fwd = None THEN <<>> ELSE Get(args.fwd)

\* C8: the configure command starts with cmake, -H<home> and -B<buildDir>,
\* holds -DCMAKE_BUILD_TYPE=<config> iff a non-empty config is requested and
\* the toolchain is single-config, holds -G<generator> iff the generator is
\* non-empty, and ends with '-D<entry>' for every --fwd entry, in the order
\* supplied and with duplicates kept.
C8_ConfigureCommand ==
  pc \in {"generate", "build", "done"} =>
    LET gc == generate_command
        e == get_by_name(RequestedName)
        n == Len(C8_Forwarded)
    IN  /\ Len(gc) >= 3 + n
        /\ gc[1] = "cmake"
        /\ gc[2] = "-H" \o (IF args.home \in {None, Some("")} THEN "." ELSE Get(args.home))
        /\ gc[3] = "-B" \o build_dir
        /\ \A c \in {"", "Release", "Debug"} :
             InSeq("-DCMAKE_BUILD_TYPE=" \o c, gc) <=>
               (args.config = Some(c) /\ c # "" /\ ~e.multiconfig)
        /\ \A i \in 1..Len(toolchain_table) :
             InSeq("-G" \o toolchain_table[i].generator, gc) <=>
               (toolchain_table[i].generator = e.generator /\ e.generator # "")
        /\ \A i \in 1..n : gc[Len(gc) - n + i] = "-D" \o C8_Forwarded[i]
        /\ \A i \in 1..(Len(gc) - n) : \A x \in FwdEntries : gc[i] # "-D" \o x

\* Toolchain ninja with config Release and a duplicated --fwd entry.
C8_Witness ==
  /\ pc = "done"
  /\ args.toolchain = Some("ninja") /\ args.config = Some("Release")
  /\ args.fwd = Some(<<"A=1", "A=1">>) /\ args.home = None
  /\ ~args.verbose /\ ~args.install /\ args.pack = None
  /\ generate_command =
       <<"cmake", "-H.", "-B/cwd/_builds/ninja-Release", "-DCMAKE_BUILD_TYPE=Release", "-GNinja",
         "-DCMAKE_TOOLCHAIN_FILE=/polly/ninja.cmake", "-DA=1", "-DA=1">>

(***************************************************************************)
(* C9                                                                      *)
(***************************************************************************)
\* C9: with --clear the build, install and framework directories have all
\* been removed, in that order, before any external call is started or any
\* directory is created; a removal happens only after every validation has
\* passed; the archives directory is never removed; without --clear nothing
\* is removed.
C9_Clear ==
  /\ args.clear =>
       /\ (started # <<>> \/ created # {}) =>
            removed = <<BuildDir(cdir, build_tag), InstallDir(cdir, polly_toolchain),
                        FrameworkDir(cdir, polly_toolchain)>>
       /\ removed # <<>> => (pc \notin ValidationLabels /\ ~ValidationError)
       /\ ~InSeq(ArchivesDir(cdir), removed)
  /\ ~args.clear => removed = <<>>

\* A --clear run whose three removals are done and whose configure stage has
\* started.
C9_Witness ==
  /\ args.clear
  /\ Len(removed) = 3
  /\ removed[3] = FrameworkDir(cdir, polly_toolchain)
  /\ started # <<>>
  /\ Last(started) = "Generate"

(***************************************************************************)
(* C10                                                                     *)
(***************************************************************************)
\* C10: the configure stage has completed before anything after it; with
\* --nobuild none of build, archive, framework, test and pack is ever started;
\* the external calls are started in the fixed order which, version, configure,
\* build, archive, framework, test, pack, open, each optional stage only after
\* a completed build; a run that prints 'SUCCESS' has opened the project iff
\* --open was given and, without --nobuild, has run exactly the optional
\* stages asked for.
C10_Stages ==
  /\ pc \in {"compose_build", "build", "archive", "framework", "test", "pack", "open",
             "success", "done"} => InSeq("Generate", completed)
  /\ args.nobuild => \A i \in 1..Len(started) : started[i] \notin BuildStages
  /\ \A i \in 1..Len(started) : \A j \in 1..Len(started) :
       i < j => Rank(started[i]) < Rank(started[j])
  /\ \A i \in 1..Len(started) :
       started[i] \in (BuildStages \ {"Build"}) => InSeq("Build", completed)
  /\ printed =>
       /\ InSeq("open", completed) <=> args.open
       /\ InSeq("Build", completed) <=> ~args.nobuild
       /\ InSeq("Archive creation", completed) <=> (~args.nobuild /\ args.archive # None)
       /\ InSeq("Framework creation", completed) <=> (~args.nobuild /\ args.framework)
       /\ InSeq("Test", completed) <=>
            (~args.nobuild /\ (args.test \/ args.test_xml # None))
       /\ InSeq("Pack", completed) <=> (~args.nobuild /\ args.pack # None)

\* A --nobuild run that asked for every optional stage printed 'SUCCESS'
\* having run the configure stage and opened the project, and nothing else.
C10_Witness ==
  /\ printed
  /\ args.nobuild /\ args.archive # None /\ args.framework /\ args.test /\ args.pack # None
  /\ args.open
  /\ started = <<"which", "version", "Generate", "open">>

====
